---- MODULE Spec2Model ----
(***************************************************************************)
(* The provisioner application of the token (components/provisioner-app)   *)
(* and the application list it is dispatched from (components/apps).       *)
(*                                                                         *)
(* Byte strings are sequences of numbers 0..255.  The store is a function  *)
(* from paths (byte strings) to file contents (byte strings); a path that  *)
(* is not in its domain does not exist.                                    *)
(***************************************************************************)
EXTENDS Integers, Sequences, FiniteSets, TLC

VARIABLES
    selected_buffer,        \* Provisioner.selected_buffer
    buffer_filename,        \* Provisioner.buffer_filename
    buffer_file_contents,   \* Provisioner.buffer_file_contents
    store,                  \* the files behind Provisioner.store
    current,                \* transport A: the application selected, or "none"
    run,                    \* "running", "panicked" (an unwrap failed) or "reset"
    frame,                  \* the frame processed last
    response,               \* what that frame returned, and who handled it
    host                    \* the host's place in a scripted exchange, if any

vars == <<selected_buffer, buffer_filename, buffer_file_contents, store,
          current, run, frame, response, host>>

Fill(b, n) == [i \in 1..n |-> b]

StartsWith(data, prefix) ==
    /\ Len(data) >= Len(prefix)
    /\ SubSeq(data, 1, Len(prefix)) = prefix

(***************************************************************************)
(* Constants of lib.rs.                                                    *)
(***************************************************************************)
SOLO_PROVISIONER_AID == <<160, 0, 0, 8, 71, 1, 0, 0, 1>>

TESTER_FILENAME_ID == <<225, 1>>
TESTER_FILE_ID == <<225, 2>>

\* b"/attn/pub/00"
FILENAME_T1_PUBLIC == <<47, 97, 116, 116, 110, 47, 112, 117, 98, 47, 48, 48>>
\* b"/attn/sec/01", 02, 03
FILENAME_P256_SECRET == <<47, 97, 116, 116, 110, 47, 115, 101, 99, 47, 48, 49>>
FILENAME_ED255_SECRET == <<47, 97, 116, 116, 110, 47, 115, 101, 99, 47, 48, 50>>
FILENAME_X255_SECRET == <<47, 97, 116, 116, 110, 47, 115, 101, 99, 47, 48, 51>>
\* b"/attn/x5c/01", 02, 03
FILENAME_P256_CERT == <<47, 97, 116, 116, 110, 47, 120, 53, 99, 47, 48, 49>>
FILENAME_ED255_CERT == <<47, 97, 116, 116, 110, 47, 120, 53, 99, 47, 48, 50>>
FILENAME_X255_CERT == <<47, 97, 116, 116, 110, 47, 120, 53, 99, 47, 48, 51>>

\* Vec<u8, 128> and Vec<u8, 8192>
FilenameCapacity == 128
FileContentsCapacity == 8192

\* "Assuming certs will always be >100 bytes"
CertMinLen == 100
\* the length SaveT1IntermediatePublicKey accepts
T1KeyLen == 64
\* random_bytes(32)
SeedLen == 32

\* hal::uuid(): the 16 bytes of the device, fixed for a device
Uuid == [i \in 1..16 |-> 200 + i]

(***************************************************************************)
(* trussed::key::Key and its serialization: flags (u16, big endian), kind  *)
(* code (u16, big endian), material.                                       *)
(***************************************************************************)
FLAGS_NONE == 0
FLAGS_LOCAL == 1
FLAGS_SENSITIVE == 2

KindCode(kind) ==
    CASE kind = "Ed255" -> 4
      [] kind = "P256" -> 5
      [] kind = "X255" -> 6

Key(flags, kind, material) ==
    [flags |-> flags, kind |-> kind, material |-> material]

serialize(key) ==
    <<key.flags \div 256, key.flags % 256,
      KindCode(key.kind) \div 256, KindCode(key.kind) % 256>> \o key.material

(***************************************************************************)
(* The public half of a seed: nisty::Keypair::generate_patiently,          *)
(* salty::Keypair::from and salty::agreement::PublicKey::from are          *)
(* functions of the seed alone.  The curve arithmetic is replaced by a     *)
(* byte mix that keeps the lengths (64 bytes for P256, 32 for the others). *)
(***************************************************************************)
PublicKeyLen(kind) == IF kind = "P256" THEN 64 ELSE 32

PublicKey(kind, seed) ==
    [i \in 1..PublicKeyLen(kind) |->
        (seed[((i - 1) % Len(seed)) + 1] * 3 + KindCode(kind) + i) % 256]

(***************************************************************************)
(* The store: trussed::store::store writes the whole file or fails and     *)
(* leaves the store as it was; PathBuf::exists looks the path up.          *)
(***************************************************************************)
EmptyStore == [x \in {} |-> <<>>]

Exists(st, path) == path \in DOMAIN st

Put(st, path, bytes) ==
    [x \in (DOMAIN st) \cup {path} |-> IF x = path THEN bytes ELSE st[x]]

\* PathBuf::from(&[u8]) of a NUL-free ASCII byte string: the same bytes
PathBufFrom(bytes) == bytes

(***************************************************************************)
(* The Provisioner, as a value: the fields a command reads and writes.     *)
(***************************************************************************)
Provisioner(sb, fname, contents, st) ==
    [selected_buffer |-> sb, buffer_filename |-> fname,
     buffer_file_contents |-> contents, store |-> st]

\* Provisioner::new
new(st) == Provisioner("Filename", <<>>, <<>>, st)

\* what handle returns: the Provisioner after the command, Ok or the Status,
\* the reply buffer, and whether the firmware is still running
Returns(p, result, reply, r) ==
    [p |-> p, result |-> result, reply |-> reply, run |-> r]

Ok(p, reply) == Returns(p, "Ok", reply, "running")
Err(p, status) == Returns(p, status, <<>>, "running")
Panic(p) == Returns(p, "Panic", <<>>, "panicked")

(***************************************************************************)
(* What a command draws from outside the Provisioner: the bytes the        *)
(* cryptographic service returns, and whether the store write and the      *)
(* format succeed.                                                         *)
(***************************************************************************)
Env(seed, store_ok, format_ok) ==
    [seed |-> seed, store_ok |-> store_ok, format_ok |-> format_ok]

\* the same for TestAttestation: the challenge the service returns, and
\* whether its signing and key agreement calls succeed (syscall! panics on an
\* error of the service)
CryptoEnv(challenge, crypto_ok) ==
    [seed |-> challenge, store_ok |-> TRUE, format_ok |-> TRUE, crypto_ok |-> crypto_ok]

(***************************************************************************)
(* Provisioner::select: the Select command.                                *)
(***************************************************************************)
\* mutant: the Select command also empties the two buffers
select_Clearing(p, data) ==
    IF StartsWith(data, TESTER_FILENAME_ID)
    THEN Ok([p EXCEPT !.selected_buffer = "Filename",
                      !.buffer_filename = <<>>, !.buffer_file_contents = <<>>], <<>>)
    ELSE IF StartsWith(data, TESTER_FILE_ID)
    THEN Ok([p EXCEPT !.selected_buffer = "File",
                      !.buffer_filename = <<>>, !.buffer_file_contents = <<>>], <<>>)
    ELSE Err(p, "NotFound")

\* mutant: an unknown tag falls back to the path buffer before it is refused
select_FallsBack(p, data) ==
    IF StartsWith(data, TESTER_FILENAME_ID)
    THEN Ok([p EXCEPT !.selected_buffer = "Filename"], <<>>)
    ELSE IF StartsWith(data, TESTER_FILE_ID)
    THEN Ok([p EXCEPT !.selected_buffer = "File"], <<>>)
    ELSE Err([p EXCEPT !.selected_buffer = "Filename"], "NotFound")

select(p, data) ==
    IF StartsWith(data, TESTER_FILENAME_ID)
    THEN Ok([p EXCEPT !.selected_buffer = "Filename"], <<>>)
    ELSE IF StartsWith(data, TESTER_FILE_ID)
    THEN Ok([p EXCEPT !.selected_buffer = "File"], <<>>)
    ELSE Err(p, "NotFound")

(***************************************************************************)
(* Provisioner::handle, one operator for each arm of the match.            *)
(***************************************************************************)
\* extend_from_slice(data).unwrap(): the append fails, and the unwrap
\* panics, when the bytes do not fit the capacity
\* mutant: the chunk is put in front of the bytes already there
WriteBinary_Prepend(p, data) ==
    IF p.selected_buffer = "Filename"
    THEN Ok([p EXCEPT !.buffer_filename = data \o @], <<>>)
    ELSE Ok([p EXCEPT !.buffer_file_contents = data \o @], <<>>)

\* mutant: the chunk replaces what the buffer holds
WriteBinary_Replace(p, data) ==
    IF p.selected_buffer = "Filename"
    THEN Ok([p EXCEPT !.buffer_filename = data], <<>>)
    ELSE Ok([p EXCEPT !.buffer_file_contents = data], <<>>)

WriteBinary(p, data) ==
    IF p.selected_buffer = "Filename"
    THEN IF Len(p.buffer_filename) + Len(data) > FilenameCapacity
         THEN Panic(p)
         ELSE Ok([p EXCEPT !.buffer_filename = @ \o data], <<>>)
    ELSE IF Len(p.buffer_file_contents) + Len(data) > FileContentsCapacity
         THEN Panic(p)
         ELSE Ok([p EXCEPT !.buffer_file_contents = @ \o data], <<>>)

\* mutant: the format reports success and erases nothing
ReformatFilesystem_Noop(p, env) ==
    IF env.format_ok THEN Ok(p, <<>>) ELSE Err(p, "NotEnoughMemory")

ReformatFilesystem(p, env) ==
    IF env.format_ok
    THEN Ok([p EXCEPT !.store = EmptyStore], <<>>)
    ELSE Err(p, "NotEnoughMemory")

\* mutant: the file is stored under /attn/pub/00, whatever the path buffer holds
WriteFile_FixedPath(p, env) ==
    IF Len(p.buffer_file_contents) = 0 \/ Len(p.buffer_filename) = 0
    THEN Err(p, "IncorrectDataParameter")
    ELSE LET st == IF env.store_ok
                   THEN Put(p.store, PathBufFrom(FILENAME_T1_PUBLIC), p.buffer_file_contents)
                   ELSE p.store
             q == [p EXCEPT !.store = st,
                            !.buffer_file_contents = <<>>,
                            !.buffer_filename = <<>>]
         IN  IF ~env.store_ok THEN Err(q, "NotEnoughMemory") ELSE Ok(q, <<>>)

\* mutant: the write is refused only when both buffers are empty
WriteFile_BothEmpty(p, env) ==
    IF Len(p.buffer_file_contents) = 0 /\ Len(p.buffer_filename) = 0
    THEN Err(p, "IncorrectDataParameter")
    ELSE LET st == IF env.store_ok
                   THEN Put(p.store, PathBufFrom(p.buffer_filename), p.buffer_file_contents)
                   ELSE p.store
             q == [p EXCEPT !.store = st,
                            !.buffer_file_contents = <<>>,
                            !.buffer_filename = <<>>]
         IN  IF ~env.store_ok THEN Err(q, "NotEnoughMemory") ELSE Ok(q, <<>>)

WriteFile(p, env) ==
    IF Len(p.buffer_file_contents) = 0 \/ Len(p.buffer_filename) = 0
    THEN Err(p, "IncorrectDataParameter")
    ELSE LET path == PathBufFrom(p.buffer_filename)
             st == IF env.store_ok
                   THEN Put(p.store, path, p.buffer_file_contents)
                   ELSE p.store
             q == [p EXCEPT !.store = st,
                            !.buffer_file_contents = <<>>,
                            !.buffer_filename = <<>>]
         IN  IF ~env.store_ok THEN Err(q, "NotEnoughMemory") ELSE Ok(q, <<>>)

\* mutant: a new P256 key removes the certificate of the key it replaces
GenerateP256Key_DropsCert(p, env) ==
    LET seed == env.seed
        serialized_bytes == serialize(Key(FLAGS_LOCAL + FLAGS_SENSITIVE, "P256", seed))
        kept == [x \in DOMAIN p.store \ {FILENAME_P256_CERT} |-> p.store[x]]
    IN  IF ~env.store_ok
        THEN Err(p, "NotEnoughMemory")
        ELSE Ok([p EXCEPT !.store = Put(kept, PathBufFrom(FILENAME_P256_SECRET), serialized_bytes)],
                PublicKey("P256", seed))

GenerateP256Key(p, env) ==
    LET seed == env.seed
        serialized_key == Key(FLAGS_LOCAL + FLAGS_SENSITIVE, "P256", seed)
        serialized_bytes == serialize(serialized_key)
    IN  IF ~env.store_ok
        THEN Err(p, "NotEnoughMemory")
        ELSE Ok([p EXCEPT !.store = Put(@, PathBufFrom(FILENAME_P256_SECRET), serialized_bytes)],
                PublicKey("P256", seed))

\* mutant: the public key is put in the reply before the secret is stored
GenerateEd255Key_OutputFirst(p, env) ==
    LET seed == env.seed
        serialized_bytes == serialize(Key(FLAGS_LOCAL + FLAGS_SENSITIVE, "Ed255", seed))
    IN  IF ~env.store_ok
        THEN Returns(p, "NotEnoughMemory", PublicKey("Ed255", seed), "running")
        ELSE Ok([p EXCEPT !.store = Put(@, PathBufFrom(FILENAME_ED255_SECRET), serialized_bytes)],
                PublicKey("Ed255", seed))

GenerateEd255Key(p, env) ==
    LET seed == env.seed
        serialized_key == Key(FLAGS_LOCAL + FLAGS_SENSITIVE, "Ed255", seed)
        serialized_bytes == serialize(serialized_key)
    IN  IF ~env.store_ok
        THEN Err(p, "NotEnoughMemory")
        ELSE Ok([p EXCEPT !.store = Put(@, PathBufFrom(FILENAME_ED255_SECRET), serialized_bytes)],
                PublicKey("Ed255", seed))

\* mutant: the X25519 secret is stored at the Ed25519 path
GenerateX255Key_WrongPath(p, env) ==
    LET seed == env.seed
        serialized_bytes == serialize(Key(FLAGS_LOCAL + FLAGS_SENSITIVE, "X255", seed))
    IN  IF ~env.store_ok
        THEN Err(p, "NotEnoughMemory")
        ELSE Ok([p EXCEPT !.store = Put(@, PathBufFrom(FILENAME_ED255_SECRET), serialized_bytes)],
                PublicKey("X255", seed))

GenerateX255Key(p, env) ==
    LET seed == env.seed
        serialized_key == Key(FLAGS_LOCAL + FLAGS_SENSITIVE, "X255", seed)
        serialized_bytes == serialize(serialized_key)
    IN  IF ~env.store_ok
        THEN Err(p, "NotEnoughMemory")
        ELSE Ok([p EXCEPT !.store = Put(@, PathBufFrom(FILENAME_X255_SECRET), serialized_bytes)],
                PublicKey("X255", seed))

SaveP256AttestationCertificate(p, data, env) ==
    LET secret_path == PathBufFrom(FILENAME_P256_SECRET)
    IN  IF ~Exists(p.store, secret_path)
        THEN Err(p, "IncorrectDataParameter")
        ELSE IF Len(data) < CertMinLen
        THEN Err(p, "IncorrectDataParameter")
        ELSE IF ~env.store_ok
        THEN Err(p, "NotEnoughMemory")
        ELSE Ok([p EXCEPT !.store = Put(@, PathBufFrom(FILENAME_P256_CERT), data)], <<>>)

\* mutant: a certificate of exactly the minimum length is refused
SaveEd255AttestationCertificate_OffByOne(p, data, env) ==
    LET secret_path == PathBufFrom(FILENAME_ED255_SECRET)
    IN  IF ~Exists(p.store, secret_path)
        THEN Err(p, "IncorrectDataParameter")
        ELSE IF Len(data) <= CertMinLen
        THEN Err(p, "IncorrectDataParameter")
        ELSE IF ~env.store_ok
        THEN Err(p, "NotEnoughMemory")
        ELSE Ok([p EXCEPT !.store = Put(@, PathBufFrom(FILENAME_ED255_CERT), data)], <<>>)

SaveEd255AttestationCertificate(p, data, env) ==
    LET secret_path == PathBufFrom(FILENAME_ED255_SECRET)
    IN  IF ~Exists(p.store, secret_path)
        THEN Err(p, "IncorrectDataParameter")
        ELSE IF Len(data) < CertMinLen
        THEN Err(p, "IncorrectDataParameter")
        ELSE IF ~env.store_ok
        THEN Err(p, "NotEnoughMemory")
        ELSE Ok([p EXCEPT !.store = Put(@, PathBufFrom(FILENAME_ED255_CERT), data)], <<>>)

\* mutant: the certificate is saved whether or not the secret exists
SaveX255AttestationCertificate_NoKeyCheck(p, data, env) ==
    IF Len(data) < CertMinLen
    THEN Err(p, "IncorrectDataParameter")
    ELSE IF ~env.store_ok
    THEN Err(p, "NotEnoughMemory")
    ELSE Ok([p EXCEPT !.store = Put(@, PathBufFrom(FILENAME_X255_CERT), data)], <<>>)

SaveX255AttestationCertificate(p, data, env) ==
    LET secret_path == PathBufFrom(FILENAME_X255_SECRET)
    IN  IF ~Exists(p.store, secret_path)
        THEN Err(p, "IncorrectDataParameter")
        ELSE IF Len(data) < CertMinLen
        THEN Err(p, "IncorrectDataParameter")
        ELSE IF ~env.store_ok
        THEN Err(p, "NotEnoughMemory")
        ELSE Ok([p EXCEPT !.store = Put(@, PathBufFrom(FILENAME_X255_CERT), data)], <<>>)

\* mutant: only a key that is too long is refused
SaveT1IntermediatePublicKey_TooLongOnly(p, data, env) ==
    IF Len(data) > T1KeyLen
    THEN Err(p, "IncorrectDataParameter")
    ELSE IF ~env.store_ok
    THEN Err(p, "NotEnoughMemory")
    ELSE Ok([p EXCEPT !.store = Put(@, PathBufFrom(FILENAME_T1_PUBLIC),
                                    serialize(Key(FLAGS_NONE, "P256", data)))], <<>>)

SaveT1IntermediatePublicKey(p, data, env) ==
    LET public_key == data
    IN  IF Len(public_key) # T1KeyLen
        THEN Err(p, "IncorrectDataParameter")
        ELSE LET serialized_key == serialize(Key(FLAGS_NONE, "P256", public_key))
             IN  IF ~env.store_ok
                 THEN Err(p, "NotEnoughMemory")
                 ELSE Ok([p EXCEPT !.store = Put(@, PathBufFrom(FILENAME_T1_PUBLIC), serialized_key)],
                         <<>>)

(***************************************************************************)
(* TestAttestation (feature test-attestation, enabled here).               *)
(* store::read returns the file at the path, or an error when there is     *)
(* none.  The signature and the authenticator are functions of the key     *)
(* slot and the bytes signed; byte mixes of the right shape stand for them.*)
(***************************************************************************)
TestAttestationMode ==
    {"P256Sign", "P256Cert", "Ed255Sign", "Ed255Cert", "X255Agree", "X255Cert", "T1Key"}

\* Command::TestAttestation { mode }
TestAttestationCommand(mode) == "TestAttestation::" \o mode

ModeOf(command) ==
    CHOOSE mode \in TestAttestationMode : TestAttestationCommand(mode) = command

PeerKeyLen == 32

\* trussed.sign(mechanism, KeyId::from_special(slot), challenge)
Signature(slot, challenge) ==
    [i \in 1..64 |-> (challenge[((i - 1) % Len(challenge)) + 1] + 7 * slot + i) % 256]

\* agree_x255 with the key of slot 3, then sign_hmacsha256 over the challenge
Authenticator(platform_pk_bytes, challenge) ==
    [i \in 1..32 |-> (challenge[i] + 5 * platform_pk_bytes[i] + 3) % 256]

\* Key::try_deserialize: the inverse of serialize, where there is one
KindOfCode(code) ==
    CASE code = 4 -> "Ed255"
      [] code = 5 -> "P256"
      [] code = 6 -> "X255"
      [] OTHER -> "none"

try_deserialize(bytes) ==
    IF Len(bytes) < 4
    THEN [ok |-> FALSE]
    ELSE LET flags == bytes[1] * 256 + bytes[2]
             kind == KindOfCode(bytes[3] * 256 + bytes[4])
         IN  IF kind = "none" \/ flags > FLAGS_LOCAL + FLAGS_SENSITIVE
             THEN [ok |-> FALSE]
             ELSE [ok |-> TRUE, key |-> Key(flags, kind, SubSeq(bytes, 5, Len(bytes)))]

\* store::read(...).map_err(|_| Status::NotFound), then the whole file
ReadBack(p, path) ==
    IF ~Exists(p.store, PathBufFrom(path))
    THEN Err(p, "NotFound")
    ELSE Ok(p, p.store[PathBufFrom(path)])

\* mutant: the P256 mode reads the Ed25519 certificate
TestAttestation_WrongCert(p, mode, data, env) ==
    CASE mode \in {"P256Cert", "Ed255Cert"} -> ReadBack(p, FILENAME_ED255_CERT)
      [] mode = "X255Cert" -> ReadBack(p, FILENAME_X255_CERT)
      [] mode = "T1Key" ->
            IF ~Exists(p.store, PathBufFrom(FILENAME_T1_PUBLIC))
            THEN Err(p, "NotFound")
            ELSE Ok(p, try_deserialize(p.store[PathBufFrom(FILENAME_T1_PUBLIC)]).key.material)
      [] OTHER -> Panic(p)

TestAttestation(p, mode, data, env) ==
    LET challenge == env.seed
    IN  CASE mode = "P256Sign" ->
                IF ~env.crypto_ok THEN Panic(p)
                ELSE Ok(p, challenge \o Signature(1, challenge))
          [] mode = "P256Cert" -> ReadBack(p, FILENAME_P256_CERT)
          [] mode = "Ed255Sign" ->
                IF ~env.crypto_ok THEN Panic(p)
                ELSE Ok(p, challenge \o Signature(2, challenge))
          [] mode = "Ed255Cert" -> ReadBack(p, FILENAME_ED255_CERT)
          [] mode = "X255Agree" ->
                \* platform_pk_bytes[i] = data[i] for i in 0..32: indexing
                \* past the end of data panics
                IF Len(data) < PeerKeyLen THEN Panic(p)
                ELSE IF ~env.crypto_ok THEN Panic(p)
                ELSE LET platform_pk_bytes == SubSeq(data, 1, PeerKeyLen)
                     IN  Ok(p, challenge \o Authenticator(platform_pk_bytes, challenge))
          [] mode = "X255Cert" -> ReadBack(p, FILENAME_X255_CERT)
          [] mode = "T1Key" ->
                IF ~Exists(p.store, PathBufFrom(FILENAME_T1_PUBLIC))
                THEN Err(p, "NotFound")
                ELSE LET key == try_deserialize(p.store[PathBufFrom(FILENAME_T1_PUBLIC)])
                     IN  IF ~key.ok THEN Err(p, "WrongLength")
                         ELSE Ok(p, key.key.material)

\* mutant: the identifier is refused while the path of a secret key exists
GetUuid_Guarded(p) ==
    IF Exists(p.store, PathBufFrom(FILENAME_P256_SECRET))
    THEN Err(p, "NotFound")
    ELSE Ok(p, Uuid)

GetUuid(p) == Ok(p, Uuid)

\* mutant: the reset is left out and the command returns
BootToBootrom_Returns(p) == Ok(p, <<>>)

\* erase_page(0) and sys_reset(): the call does not return
BootToBootrom(p) == Returns(p, "NoReturn", <<>>, "reset")

Commands ==
    {"Select", "WriteBinary", "WriteFile", "BootToBootrom", "ReformatFilesystem",
     "GetUuid", "GenerateP256Key", "GenerateEd255Key", "GenerateX255Key",
     "SaveP256AttestationCertificate", "SaveEd255AttestationCertificate",
     "SaveX255AttestationCertificate", "SaveT1IntermediatePublicKey"}
    \cup {TestAttestationCommand(mode) : mode \in TestAttestationMode}

handle(p, command, data, env) ==
    CASE command = "Select" -> select(p, data)
      [] command = "WriteBinary" -> WriteBinary(p, data)
      [] command = "ReformatFilesystem" -> ReformatFilesystem(p, env)
      [] command = "WriteFile" -> WriteFile(p, env)
      [] command = "GenerateP256Key" -> GenerateP256Key(p, env)
      [] command = "GenerateEd255Key" -> GenerateEd255Key(p, env)
      [] command = "GenerateX255Key" -> GenerateX255Key(p, env)
      [] command = "SaveP256AttestationCertificate" ->
            SaveP256AttestationCertificate(p, data, env)
      [] command = "SaveEd255AttestationCertificate" ->
            SaveEd255AttestationCertificate(p, data, env)
      [] command = "SaveX255AttestationCertificate" ->
            SaveX255AttestationCertificate(p, data, env)
      [] command = "SaveT1IntermediatePublicKey" ->
            SaveT1IntermediatePublicKey(p, data, env)
      [] command = "GetUuid" -> GetUuid(p)
      [] command = "BootToBootrom" -> BootToBootrom(p)
      [] OTHER -> TestAttestation(p, ModeOf(command), data, env)

Statuses == {"NotFound", "WrongLength", "NotEnoughMemory", "IncorrectDataParameter"}

(***************************************************************************)
(* apdu.rs: the adapter of transport A.  A frame is [ins, p1, p2, data].   *)
(***************************************************************************)
Apdu(ins, p1, p2, data) == [ins |-> ins, p1 |-> p1, p2 |-> p2, data |-> data]

INS_SELECT == 164
INS_WRITE_BINARY == 208
INS_READ_BINARY == 176

\* ApduCommand::instruction(): the instructions ISO 7816 names, or Unknown(ins)
instruction(apdu) ==
    CASE apdu.ins = INS_SELECT -> [name |-> "Select", ins |-> apdu.ins]
      [] apdu.ins = INS_WRITE_BINARY -> [name |-> "WriteBinary", ins |-> apdu.ins]
      [] apdu.ins = INS_READ_BINARY -> [name |-> "ReadBinary", ins |-> apdu.ins]
      [] OTHER -> [name |-> "Unknown", ins |-> apdu.ins]

Decoded(command) == [ok |-> TRUE, command |-> command]
Rejected(status) == [ok |-> FALSE, status |-> status]

\* mutant: a code that is not in the table is taken for WriteFile
InstructionsTryFrom_Lenient(ins) ==
    IF ins = 184 THEN Decoded("TestAttestation") ELSE Decoded("WriteFile")

\* TryFrom<u8> for Instructions
InstructionsTryFrom(ins) ==
    CASE ins = 191 -> Decoded("WriteFile")
      [] ins = 81 -> Decoded("BootToBootrom")
      [] ins = 189 -> Decoded("ReformatFilesystem")
      [] ins = 98 -> Decoded("GetUuid")
      [] ins = 188 -> Decoded("GenerateP256Key")
      [] ins = 187 -> Decoded("GenerateEd255Key")
      [] ins = 183 -> Decoded("GenerateX255Key")
      [] ins = 186 -> Decoded("SaveP256AttestationCertificate")
      [] ins = 185 -> Decoded("SaveEd255AttestationCertificate")
      [] ins = 182 -> Decoded("SaveX255AttestationCertificate")
      [] ins = 181 -> Decoded("SaveT1IntermediatePublicKey")
      [] ins = 184 -> Decoded("TestAttestation")
      [] OTHER -> Rejected("FunctionNotSupported")

\* TryFrom<u8> for TestAttestationP1, then From<TestAttestationP1>
TestAttestationP1TryFrom(value) ==
    CASE value = 0 -> Decoded("P256Sign")
      [] value = 1 -> Decoded("P256Cert")
      [] value = 2 -> Decoded("Ed255Sign")
      [] value = 3 -> Decoded("Ed255Cert")
      [] value = 4 -> Decoded("X255Agree")
      [] value = 5 -> Decoded("X255Cert")
      [] value = 6 -> Decoded("T1Key")
      [] OTHER -> Rejected("FunctionNotSupported")

\* TryFrom<&ApduCommand> for Command
CommandTryFromApdu(apdu_command) ==
    LET i == instruction(apdu_command)
    IN  CASE i.name = "Select" -> Decoded("Select")
          [] i.name = "WriteBinary" -> Decoded("WriteBinary")
          [] i.name = "Unknown" ->
                LET found == InstructionsTryFrom(i.ins)
                IN  IF ~found.ok THEN found
                    ELSE IF found.command = "TestAttestation"
                    THEN LET mode == TestAttestationP1TryFrom(apdu_command.p1)
                         IN  IF ~mode.ok THEN mode
                             ELSE Decoded(TestAttestationCommand(mode.command))
                    ELSE found
          [] OTHER -> Rejected("FunctionNotSupported")

\* From<Status> for ApduStatus
ApduStatusFrom(status) ==
    CASE status = "NotFound" -> "ApduStatus::NotFound"
      [] status = "WrongLength" -> "ApduStatus::WrongLength"
      [] status = "NotEnoughMemory" -> "ApduStatus::NotEnoughMemory"
      [] status = "IncorrectDataParameter" -> "ApduStatus::IncorrectDataParameter"

\* what an adapter returns: the Provisioner after the frame, the Command it
\* decoded ("none" when the interpreter was not called), the interpreter's
\* result, the transport's outcome, the reply and whether the firmware runs
Answer(p, command, status, outcome, reply, r) ==
    [p |-> p, command |-> command, status |-> status, outcome |-> outcome,
     reply |-> reply, run |-> r]

\* mutant: the selection empties the content buffer only
apdu_select_ContentsOnly(p) ==
    Answer([p EXCEPT !.buffer_file_contents = <<>>],
           "none", "none", "Ok", Uuid, "running")

\* apdu_dispatch::app::App::select
apdu_select(p) ==
    Answer([p EXCEPT !.buffer_file_contents = <<>>, !.buffer_filename = <<>>],
           "none", "none", "Ok", Uuid, "running")

\* apdu_dispatch::app::App::call
apdu_call(p, apdu, env) ==
    LET command == CommandTryFromApdu(apdu)
    IN  IF ~command.ok
        THEN Answer(p, "none", "none", "ApduStatus::" \o command.status, <<>>, "running")
        ELSE LET r == handle(p, command.command, apdu.data, env)
             IN  Answer(r.p, command.command, r.result,
                        IF r.result \in Statuses THEN ApduStatusFrom(r.result) ELSE r.result,
                        r.reply, r.run)

(***************************************************************************)
(* ctaphid.rs: the adapter of transport B.  A frame is a vendor command    *)
(* code and its data.                                                      *)
(***************************************************************************)
COMMAND_SELECT == 112
COMMAND_WRITE_BINARY == 113
COMMAND_WRITE_FILE == 114
COMMAND_GET_UUID == 115
COMMAND_GENERATE_P256_KEY == 116
COMMAND_SAVE_P256_ATTESTATION_CERTIFICATE == 117
COMMAND_SAVE_T1_INTERMEDIATE_PBULIC_KEY == 118

\* hid::App::commands
commands ==
    {COMMAND_SELECT, COMMAND_WRITE_BINARY, COMMAND_WRITE_FILE, COMMAND_GET_UUID,
     COMMAND_GENERATE_P256_KEY, COMMAND_SAVE_P256_ATTESTATION_CERTIFICATE,
     COMMAND_SAVE_T1_INTERMEDIATE_PBULIC_KEY}

\* mutant: two vendor codes of the table are exchanged
CommandFromVendor_Exchanged(command) ==
    CASE command = COMMAND_SELECT -> Decoded("Select")
      [] command = COMMAND_WRITE_BINARY -> Decoded("WriteBinary")
      [] command = COMMAND_WRITE_FILE -> Decoded("WriteFile")
      [] command = COMMAND_GET_UUID -> Decoded("GetUuid")
      [] command = COMMAND_GENERATE_P256_KEY -> Decoded("GenerateP256Key")
      [] command = COMMAND_SAVE_P256_ATTESTATION_CERTIFICATE ->
            Decoded("SaveT1IntermediatePublicKey")
      [] command = COMMAND_SAVE_T1_INTERMEDIATE_PBULIC_KEY ->
            Decoded("SaveP256AttestationCertificate")
      [] OTHER -> Rejected("InvalidCommand")

\* the match of hid::App::call
CommandFromVendor(command) ==
    CASE command = COMMAND_SELECT -> Decoded("Select")
      [] command = COMMAND_WRITE_BINARY -> Decoded("WriteBinary")
      [] command = COMMAND_WRITE_FILE -> Decoded("WriteFile")
      [] command = COMMAND_GET_UUID -> Decoded("GetUuid")
      [] command = COMMAND_GENERATE_P256_KEY -> Decoded("GenerateP256Key")
      [] command = COMMAND_SAVE_P256_ATTESTATION_CERTIFICATE ->
            Decoded("SaveP256AttestationCertificate")
      [] command = COMMAND_SAVE_T1_INTERMEDIATE_PBULIC_KEY ->
            Decoded("SaveT1IntermediatePublicKey")
      [] OTHER -> Rejected("InvalidCommand")

\* .map_err(|_| hid::Error::InvalidLength): whatever the Status is
HidErrorFrom(status) == "hid::Error::InvalidLength"

\* mutant: transport B works on scratch buffers of its own, empty at each frame
hid_call_Private(p, command, input_data, env) ==
    LET c == CommandFromVendor(command)
        own == [p EXCEPT !.buffer_filename = <<>>, !.buffer_file_contents = <<>>]
    IN  IF ~c.ok
        THEN Answer(p, "none", "none", "hid::Error::" \o c.status, <<>>, "running")
        ELSE LET r == handle(own, c.command, input_data, env)
             IN  Answer([p EXCEPT !.store = r.p.store], c.command, r.result,
                        IF r.result \in Statuses THEN HidErrorFrom(r.result) ELSE r.result,
                        r.reply, r.run)

\* hid::App::call
hid_call(p, command, input_data, env) ==
    LET c == CommandFromVendor(command)
    IN  IF ~c.ok
        THEN Answer(p, "none", "none", "hid::Error::" \o c.status, <<>>, "running")
        ELSE LET r == handle(p, c.command, input_data, env)
             IN  Answer(r.p, c.command, r.result,
                        IF r.result \in Statuses THEN HidErrorFrom(r.result) ELSE r.result,
                        r.reply, r.run)

(***************************************************************************)
(* apps/src/lib.rs: the applications handed to the dispatch of each        *)
(* transport, in the order of Apps::apdu_dispatch and                      *)
(* Apps::ctaphid_dispatch (the admin and provisioner features).            *)
(***************************************************************************)
\* mutant: the provisioner is left out of the list of transport A
ApduApps_NoProvisioner == <<"admin">>

ApduApps == <<"admin", "provisioner">>

\* mutant: the provisioner is left out of the list of transport B
CtaphidApps_NoProvisioner == <<"admin">>

CtaphidApps == <<"admin", "provisioner">>

ADMIN_AID == <<160, 0, 0, 8, 71, 0, 0, 0, 1>>

\* iso7816::App::aid
aid(app) == IF app = "provisioner" THEN SOLO_PROVISIONER_AID ELSE ADMIN_AID

\* the other application is opaque: its hooks leave the Provisioner alone
Opaque(p) == Answer(p, "none", "none", "Ok", <<>>, "running")

AppSelect(app, p) == IF app = "provisioner" THEN apdu_select(p) ELSE Opaque(p)

AppCall(app, p, apdu, env) ==
    IF app = "provisioner" THEN apdu_call(p, apdu, env) ELSE Opaque(p)

\* apdu_dispatch::app::App::deselect: empty for the Provisioner
AppDeselect(app, p) == p

(***************************************************************************)
(* The router.  Transport A: a select frame (SELECT by name, P1 = 4)       *)
(* deselects the application selected before when its identifier differs,  *)
(* then selects the application whose identifier matches; every other      *)
(* frame goes to the application selected.  Transport B: the frame goes to *)
(* the first application whose command set holds the code.                 *)
(***************************************************************************)
P1_SELECT_BY_NAME == 4

IsSelectFrame(apdu) ==
    instruction(apdu).name = "Select" /\ apdu.p1 = P1_SELECT_BY_NAME

Routed(a, cur, app, hooks) ==
    [p |-> a.p, current |-> cur, app |-> app, hooks |-> hooks,
     command |-> a.command, status |-> a.status, outcome |-> a.outcome,
     reply |-> a.reply, run |-> a.run]

NotRouted(p, cur, hooks, outcome) ==
    Routed(Answer(p, "none", "none", outcome, <<>>, "running"), cur, "none", hooks)

find_app(apps, id) ==
    LET hits == {i \in DOMAIN apps : aid(apps[i]) = id}
    IN  IF hits = {} THEN "none"
        ELSE apps[CHOOSE i \in hits : \A j \in hits : i <= j]

route_A(p, cur, apdu, env) ==
    IF IsSelectFrame(apdu)
    THEN LET leave == cur # "none" /\ aid(cur) # apdu.data
             q == IF leave THEN AppDeselect(cur, p) ELSE p
             cur1 == IF leave THEN "none" ELSE cur
             hooks1 == IF leave THEN <<[hook |-> "deselect", app |-> cur]>> ELSE <<>>
             app == find_app(ApduApps, apdu.data)
         IN  IF app = "none"
             THEN NotRouted(q, cur1, hooks1, "ApduStatus::NotFound")
             ELSE Routed(AppSelect(app, q), app, app,
                         hooks1 \o <<[hook |-> "select", app |-> app]>>)
    ELSE IF cur = "none"
         THEN NotRouted(p, cur, <<>>, "ApduStatus::NotFound")
         ELSE Routed(AppCall(cur, p, apdu, env), cur, cur,
                     <<[hook |-> "call", app |-> cur]>>)

\* the command set of an application on transport B; the other application
\* declares a vendor code of its own
ADMIN_COMMANDS == {COMMAND_SELECT - 16}

hid_commands(app) == IF app = "provisioner" THEN commands ELSE ADMIN_COMMANDS

route_B(p, cur, command, data, env) ==
    LET hits == {i \in DOMAIN CtaphidApps : command \in hid_commands(CtaphidApps[i])}
    IN  IF hits = {}
        THEN NotRouted(p, cur, <<>>, "hid::Error::InvalidCommand")
        ELSE LET app == CtaphidApps[CHOOSE i \in hits : \A j \in hits : i <= j]
             IN  Routed(IF app = "provisioner" THEN hid_call(p, command, data, env)
                        ELSE Opaque(p),
                        cur, app, <<[hook |-> "call", app |-> app]>>)

(***************************************************************************)
(* The state machine: one frame is processed at a time.                    *)
(***************************************************************************)
Self == Provisioner(selected_buffer, buffer_filename, buffer_file_contents, store)

NoFrame == [transport |-> "none", ins |-> 0, p1 |-> 0, p2 |-> 0, data |-> <<>>]

NoResponse ==
    [app |-> "none", hooks |-> <<>>, command |-> "none", status |-> "none",
     outcome |-> "none", reply |-> <<>>]

\* no script: the host sends any frame at any time
NoHost == [pc |-> "none", F |-> <<>>, C |-> <<>>, restF |-> <<>>, restC |-> <<>>]

\* the state after construction (Provisioner::new), before the first frame
Booted ==
    /\ selected_buffer = new(EmptyStore).selected_buffer
    /\ buffer_filename = new(EmptyStore).buffer_filename
    /\ buffer_file_contents = new(EmptyStore).buffer_file_contents
    /\ store = new(EmptyStore).store
    /\ current = "none"
    /\ run = "running"
    /\ frame = NoFrame
    /\ response = NoResponse

Init == Booted /\ host = NoHost

Apply(r, f) ==
    /\ selected_buffer' = r.p.selected_buffer
    /\ buffer_filename' = r.p.buffer_filename
    /\ buffer_file_contents' = r.p.buffer_file_contents
    /\ store' = r.p.store
    /\ current' = r.current
    /\ run' = r.run
    /\ frame' = f
    /\ response' = [app |-> r.app, hooks |-> r.hooks, command |-> r.command,
                    status |-> r.status, outcome |-> r.outcome, reply |-> r.reply]

\* a frame of transport A
FrameA(apdu, env) ==
    /\ run = "running"
    /\ Apply(route_A(Self, current, apdu, env),
             [transport |-> "A", ins |-> apdu.ins, p1 |-> apdu.p1, p2 |-> apdu.p2,
              data |-> apdu.data])

\* a frame of transport B
FrameB(command, data, env) ==
    /\ run = "running"
    /\ Apply(route_B(Self, current, command, data, env),
             [transport |-> "B", ins |-> command, p1 |-> 0, p2 |-> 0, data |-> data])

StepA(apdu, env) == FrameA(apdu, env) /\ UNCHANGED host

StepB(command, data, env) == FrameB(command, data, env) /\ UNCHANGED host

(***************************************************************************)
(* The inputs: what the host sends and what the services answer.           *)
(***************************************************************************)
\* the buffer a chunk goes to has fewer than MaxFill bytes when it is sent
MaxFill == 2

\* enum Instructions: the instruction byte of each command of transport A
Instructions(name) ==
    CASE name = "WriteFile" -> 191
      [] name = "BootToBootrom" -> 81
      [] name = "ReformatFilesystem" -> 189
      [] name = "GetUuid" -> 98
      [] name = "GenerateP256Key" -> 188
      [] name = "GenerateEd255Key" -> 187
      [] name = "GenerateX255Key" -> 183
      [] name = "SaveP256AttestationCertificate" -> 186
      [] name = "SaveEd255AttestationCertificate" -> 185
      [] name = "SaveX255AttestationCertificate" -> 182
      [] name = "SaveT1IntermediatePublicKey" -> 181
      [] name = "TestAttestation" -> 184

UNKNOWN_AID == <<160, 0, 0, 8, 71, 9>>
Aids == {SOLO_PROVISIONER_AID, ADMIN_AID, UNKNOWN_AID}

SelectData == {TESTER_FILENAME_ID, TESTER_FILE_ID, <<225>>}
Chunks == {<<97>>}
Seeds == {Fill(17, SeedLen), Fill(34, SeedLen)}
CertPayloads == {Fill(48, CertMinLen - 1), Fill(48, CertMinLen), Fill(49, CertMinLen + 1)}
T1Payloads == {Fill(7, T1KeyLen - 1), Fill(7, T1KeyLen), Fill(8, T1KeyLen + 1)}

NoEnv == Env(<<>>, TRUE, TRUE)
StoreEnvs == {Env(<<>>, ok, TRUE) : ok \in BOOLEAN}
SeedEnvs(seeds) == {Env(seed, ok, TRUE) : seed \in seeds, ok \in BOOLEAN}
FormatEnvs == {Env(<<>>, TRUE, ok) : ok \in BOOLEAN}

Challenges == {Fill(60, SeedLen)}
CryptoEnvs == {CryptoEnv(c, ok) : c \in Challenges, ok \in BOOLEAN}

\* a peer key of 32 bytes, and one that is a byte short
PeerKeys == {Fill(9, PeerKeyLen), Fill(9, PeerKeyLen - 1)}

\* two certificates and two intermediate keys that are accepted
TwoCerts == {Fill(48, CertMinLen), Fill(49, CertMinLen + 1)}
TwoT1Keys == {Fill(7, T1KeyLen), Fill(8, T1KeyLen)}

\* the blocks a host sends when it writes long names and long contents: half
\* the capacity of the buffer they are meant for
PathBlockLen == 64
ContentBlockLen == 4096

BlockFor(sb) ==
    IF sb = "Filename" THEN Fill(97, PathBlockLen) ELSE Fill(98, ContentBlockLen)

\* the instruction bytes and the vendor codes of the two tables
InstructionNames ==
    {"WriteFile", "BootToBootrom", "ReformatFilesystem", "GetUuid", "GenerateP256Key",
     "GenerateEd255Key", "GenerateX255Key", "SaveP256AttestationCertificate",
     "SaveEd255AttestationCertificate", "SaveX255AttestationCertificate",
     "SaveT1IntermediatePublicKey", "TestAttestation"}

InstructionTable ==
    {INS_SELECT, INS_WRITE_BINARY} \cup {Instructions(name) : name \in InstructionNames}

\* codes outside the tables: ReadBinary is an instruction ISO 7816 names
UnknownInstructions == {0, INS_READ_BINARY, 255}
UnknownCommands == {COMMAND_SELECT - 1, COMMAND_SAVE_T1_INTERMEDIATE_PBULIC_KEY + 1}

SelectedContents ==
    IF selected_buffer = "Filename" THEN buffer_filename ELSE buffer_file_contents

\* transport A
ASelectApp(aids) ==
    \E id \in aids : StepA(Apdu(INS_SELECT, P1_SELECT_BY_NAME, 0, id), NoEnv)

ASelect ==
    \E d \in SelectData : StepA(Apdu(INS_SELECT, 0, 0, d), NoEnv)

AWriteBinary ==
    /\ Len(SelectedContents) < MaxFill
    /\ \E d \in Chunks : StepA(Apdu(INS_WRITE_BINARY, 0, 0, d), NoEnv)

AWriteFile ==
    \E e \in StoreEnvs : StepA(Apdu(Instructions("WriteFile"), 0, 0, <<>>), e)

AReformatFilesystem ==
    \E e \in FormatEnvs : StepA(Apdu(Instructions("ReformatFilesystem"), 0, 0, <<>>), e)

AGetUuid ==
    StepA(Apdu(Instructions("GetUuid"), 0, 0, <<>>), NoEnv)

AGenerateP256Key(seeds) ==
    \E e \in SeedEnvs(seeds) : StepA(Apdu(Instructions("GenerateP256Key"), 0, 0, <<>>), e)

AGenerateEd255Key(seeds) ==
    \E e \in SeedEnvs(seeds) : StepA(Apdu(Instructions("GenerateEd255Key"), 0, 0, <<>>), e)

AGenerateX255Key(seeds) ==
    \E e \in SeedEnvs(seeds) : StepA(Apdu(Instructions("GenerateX255Key"), 0, 0, <<>>), e)

ASaveP256AttestationCertificate(payloads) ==
    \E d \in payloads, e \in StoreEnvs :
        StepA(Apdu(Instructions("SaveP256AttestationCertificate"), 0, 0, d), e)

ASaveEd255AttestationCertificate(payloads) ==
    \E d \in payloads, e \in StoreEnvs :
        StepA(Apdu(Instructions("SaveEd255AttestationCertificate"), 0, 0, d), e)

ASaveX255AttestationCertificate(payloads) ==
    \E d \in payloads, e \in StoreEnvs :
        StepA(Apdu(Instructions("SaveX255AttestationCertificate"), 0, 0, d), e)

ASaveT1IntermediatePublicKey(payloads) ==
    \E d \in payloads, e \in StoreEnvs :
        StepA(Apdu(Instructions("SaveT1IntermediatePublicKey"), 0, 0, d), e)

\* a block for the buffer that is selected
AWriteBinaryBlock ==
    StepA(Apdu(INS_WRITE_BINARY, 0, 0, BlockFor(selected_buffer)), NoEnv)

AUnknownInstruction ==
    \E ins \in UnknownInstructions : StepA(Apdu(ins, 0, 0, <<97>>), NoEnv)

ABootToBootrom ==
    StepA(Apdu(Instructions("BootToBootrom"), 0, 0, <<>>), NoEnv)

\* P1 carries the mode; 7 is no mode
ATestAttestation(payloads) ==
    \E p1 \in 0..7, d \in payloads, e \in CryptoEnvs :
        StepA(Apdu(Instructions("TestAttestation"), p1, 0, d), e)

\* transport B
BSelect ==
    \E d \in SelectData : StepB(COMMAND_SELECT, d, NoEnv)

BWriteBinary ==
    /\ Len(SelectedContents) < MaxFill
    /\ \E d \in Chunks : StepB(COMMAND_WRITE_BINARY, d, NoEnv)

BWriteFile ==
    \E e \in StoreEnvs : StepB(COMMAND_WRITE_FILE, <<>>, e)

BWriteBinaryBlock ==
    StepB(COMMAND_WRITE_BINARY, BlockFor(selected_buffer), NoEnv)

BUnknownCommand ==
    \E c \in UnknownCommands : StepB(c, <<97>>, NoEnv)

\* a frame for the other application
BOtherApp ==
    \E c \in ADMIN_COMMANDS : StepB(c, <<97>>, NoEnv)

BGetUuid ==
    StepB(COMMAND_GET_UUID, <<>>, NoEnv)

BGenerateP256Key(seeds) ==
    \E e \in SeedEnvs(seeds) : StepB(COMMAND_GENERATE_P256_KEY, <<>>, e)

BSaveP256AttestationCertificate(payloads) ==
    \E d \in payloads, e \in StoreEnvs :
        StepB(COMMAND_SAVE_P256_ATTESTATION_CERTIFICATE, d, e)

BSaveT1IntermediatePublicKey(payloads) ==
    \E d \in payloads, e \in StoreEnvs :
        StepB(COMMAND_SAVE_T1_INTERMEDIATE_PBULIC_KEY, d, e)

(***************************************************************************)
(* Spec: the file-write protocol and the selection of applications, on     *)
(* both transports.                                                        *)
(***************************************************************************)
Next ==
    \/ ASelectApp(Aids)
    \/ ASelect
    \/ AWriteBinary
    \/ AWriteFile
    \/ BSelect
    \/ BWriteBinary
    \/ BWriteFile
    \/ AUnknownInstruction
    \/ BUnknownCommand
    \/ BOtherApp

Spec == Init /\ [][Next]_vars

(***************************************************************************)
(* SpecKeys: the key and certificate commands, on both transports.         *)
(***************************************************************************)
NextKeys ==
    \/ ASelectApp({SOLO_PROVISIONER_AID})
    \/ AReformatFilesystem
    \/ AGetUuid
    \/ AGenerateP256Key(Seeds)
    \/ AGenerateEd255Key(Seeds)
    \/ AGenerateX255Key(Seeds)
    \/ ASaveP256AttestationCertificate(CertPayloads)
    \/ ASaveEd255AttestationCertificate(CertPayloads)
    \/ ASaveX255AttestationCertificate(CertPayloads)
    \/ ASaveT1IntermediatePublicKey(T1Payloads)
    \/ BGetUuid
    \/ BGenerateP256Key(Seeds)
    \/ BSaveP256AttestationCertificate(CertPayloads)
    \/ BSaveT1IntermediatePublicKey(T1Payloads)

SpecKeys == Init /\ [][NextKeys]_vars

(***************************************************************************)
(* SpecCommon: the states in which the two adapters are compared.  The     *)
(* scratch state is filled and redirected from both transports and a P256  *)
(* key, its certificate and the intermediate key are provisioned, with one *)
(* seed, one certificate and one intermediate key.                         *)
(***************************************************************************)
OneSeed == {Fill(17, SeedLen)}
OneCert == {Fill(48, CertMinLen)}
OneT1Key == {Fill(7, T1KeyLen)}

NextCommon ==
    \/ ASelectApp({SOLO_PROVISIONER_AID})
    \/ ASelect
    \/ AWriteBinary
    \/ AGetUuid
    \/ AGenerateP256Key(OneSeed)
    \/ ASaveP256AttestationCertificate(OneCert)
    \/ ASaveT1IntermediatePublicKey(OneT1Key)
    \/ BSelect
    \/ BWriteBinary
    \/ BGetUuid
    \/ BGenerateP256Key(OneSeed)
    \/ BSaveP256AttestationCertificate(OneCert)
    \/ BSaveT1IntermediatePublicKey(OneT1Key)

SpecCommon == Init /\ [][NextCommon]_vars

(***************************************************************************)
(* SpecAttest: keys, certificates and the intermediate key are provisioned *)
(* and exercised with TestAttestation; the filesystem can be reformatted   *)
(* and the device sent to the bootrom.                                     *)
(***************************************************************************)
NextAttest ==
    \/ ASelectApp({SOLO_PROVISIONER_AID})
    \/ AReformatFilesystem
    \/ ABootToBootrom
    \/ AGenerateP256Key(OneSeed)
    \/ AGenerateEd255Key(OneSeed)
    \/ AGenerateX255Key(OneSeed)
    \/ ASaveP256AttestationCertificate(TwoCerts)
    \/ ASaveEd255AttestationCertificate(TwoCerts)
    \/ ASaveX255AttestationCertificate(TwoCerts)
    \/ ASaveT1IntermediatePublicKey(TwoT1Keys)
    \/ ATestAttestation(PeerKeys)

SpecAttest == Init /\ [][NextAttest]_vars

(***************************************************************************)
(* SpecBlocks: the host fills the buffers block by block, on both          *)
(* transports, and nothing tells it when to stop.                          *)
(***************************************************************************)
NextBlocks ==
    \/ ASelectApp({SOLO_PROVISIONER_AID})
    \/ ASelect
    \/ AWriteBinaryBlock
    \/ AWriteFile
    \/ BSelect
    \/ BWriteBinaryBlock
    \/ BWriteFile

SpecBlocks == Init /\ [][NextBlocks]_vars

(***************************************************************************)
(* SpecPaths: files are written through the two buffers while an X25519    *)
(* key, its certificate and the intermediate key are provisioned and the   *)
(* filesystem is reformatted.                                              *)
(***************************************************************************)
NextPaths ==
    \/ ASelectApp({SOLO_PROVISIONER_AID})
    \/ ASelect
    \/ AWriteBinary
    \/ AWriteFile
    \/ BWriteFile
    \/ AReformatFilesystem
    \/ AGenerateX255Key(OneSeed)
    \/ ASaveX255AttestationCertificate(OneCert)
    \/ ASaveT1IntermediatePublicKey(OneT1Key)

SpecPaths == Init /\ [][NextPaths]_vars

(***************************************************************************)
(* SpecRoundTrip: the host writes one file.  It picks a name F and a       *)
(* content C, selects the application, then sends Select(Filename tag),    *)
(* F in chunks, Select(File tag), C in chunks and WriteFile, each frame on *)
(* either transport.                                                       *)
(***************************************************************************)
\* the longest name and the longest content the host picks
MaxLen == 3

Bytes == {97, 98}
ByteStrings(n) == UNION {[1..k -> Bytes] : k \in 1..n}

\* the instruction byte (transport A) and the vendor code (transport B) of
\* the commands of the file-write protocol
InsOf(name) ==
    CASE name = "Select" -> INS_SELECT
      [] name = "WriteBinary" -> INS_WRITE_BINARY
      [] OTHER -> Instructions(name)

VendorOf(name) ==
    CASE name = "Select" -> COMMAND_SELECT
      [] name = "WriteBinary" -> COMMAND_WRITE_BINARY
      [] name = "WriteFile" -> COMMAND_WRITE_FILE
      [] name = "GetUuid" -> COMMAND_GET_UUID
      [] name = "GenerateP256Key" -> COMMAND_GENERATE_P256_KEY
      [] name = "SaveP256AttestationCertificate" -> COMMAND_SAVE_P256_ATTESTATION_CERTIFICATE
      [] name = "SaveT1IntermediatePublicKey" -> COMMAND_SAVE_T1_INTERMEDIATE_PBULIC_KEY

Frame(t, name, data, env) ==
    IF t = "A"
    THEN FrameA(Apdu(InsOf(name), 0, 0, data), env)
    ELSE FrameB(VendorOf(name), data, env)

Transports == {"A", "B"}

\* the offset a WriteBinary frame of transport A carries in P1 and P2
Offsets == {<<0, 0>>, <<1, 2>>}

WriteBinaryFrame(t, off, data) ==
    IF t = "A"
    THEN FrameA(Apdu(INS_WRITE_BINARY, off[1], off[2], data), NoEnv)
    ELSE off = <<0, 0>> /\ FrameB(COMMAND_WRITE_BINARY, data, NoEnv)

Rest(seq, k) == SubSeq(seq, k + 1, Len(seq))

InitRoundTrip ==
    /\ Booted
    /\ host \in {[pc |-> "start", F |-> f, C |-> c, restF |-> f, restC |-> c] :
                    f \in ByteStrings(MaxLen), c \in ByteStrings(MaxLen)}

HostSelectApp ==
    /\ host.pc = "start"
    /\ FrameA(Apdu(INS_SELECT, P1_SELECT_BY_NAME, 0, SOLO_PROVISIONER_AID), NoEnv)
    /\ host' = [host EXCEPT !.pc = "filename"]

HostSelectFilename ==
    /\ host.pc = "filename"
    /\ \E t \in Transports : Frame(t, "Select", TESTER_FILENAME_ID, NoEnv)
    /\ host' = [host EXCEPT !.pc = "name"]

HostWriteName ==
    /\ host.pc = "name"
    /\ \E t \in Transports, off \in Offsets, k \in 1..Len(host.restF) :
          /\ WriteBinaryFrame(t, off, SubSeq(host.restF, 1, k))
          /\ host' = [host EXCEPT !.restF = Rest(@, k)]

HostSelectFile ==
    /\ host.pc = "name"
    /\ host.restF = <<>>
    /\ \E t \in Transports : Frame(t, "Select", TESTER_FILE_ID, NoEnv)
    /\ host' = [host EXCEPT !.pc = "contents"]

HostWriteContents ==
    /\ host.pc = "contents"
    /\ \E t \in Transports, off \in Offsets, k \in 1..Len(host.restC) :
          /\ WriteBinaryFrame(t, off, SubSeq(host.restC, 1, k))
          /\ host' = [host EXCEPT !.restC = Rest(@, k)]

HostWriteFile ==
    /\ host.pc = "contents"
    /\ host.restC = <<>>
    /\ \E t \in Transports, e \in StoreEnvs : Frame(t, "WriteFile", <<>>, e)
    /\ host' = [host EXCEPT !.pc = "done"]

NextRoundTrip ==
    \/ HostSelectApp
    \/ HostSelectFilename
    \/ HostWriteName
    \/ HostSelectFile
    \/ HostWriteContents
    \/ HostWriteFile

SpecRoundTrip == InitRoundTrip /\ [][NextRoundTrip]_vars

(***************************************************************************)
(* SpecShared: the same exchange, with the transport of every frame        *)
(* remembered (host.via), and with one selection of the application in the *)
(* middle of it, after which the host starts the file again; host.dropped  *)
(* holds the transports of the frames whose bytes that selection dropped.  *)
(***************************************************************************)
\* the longest name and the longest content of this exchange
MaxShared == 2

InitShared ==
    /\ Booted
    /\ host \in {[pc |-> "start", F |-> f, C |-> c, restF |-> f, restC |-> c,
                   via |-> <<>>, dropped |-> {}, resets |-> 0] :
                    f \in ByteStrings(MaxShared), c \in ByteStrings(MaxShared)}

SharedSelectApp ==
    /\ host.pc = "start"
    /\ FrameA(Apdu(INS_SELECT, P1_SELECT_BY_NAME, 0, SOLO_PROVISIONER_AID), NoEnv)
    /\ host' = [host EXCEPT !.pc = "filename"]

SharedReselectApp ==
    /\ host.pc \in {"name", "contents"}
    /\ host.resets = 0
    /\ FrameA(Apdu(INS_SELECT, P1_SELECT_BY_NAME, 0, SOLO_PROVISIONER_AID), NoEnv)
    /\ host' = [host EXCEPT !.pc = "filename", !.restF = host.F, !.restC = host.C,
                            !.via = <<>>,
                            !.dropped = {host.via[i] : i \in 1..Len(host.via)}, !.resets = 1]

SharedSelectFilename ==
    /\ host.pc = "filename"
    /\ \E t \in Transports :
          /\ Frame(t, "Select", TESTER_FILENAME_ID, NoEnv)
          /\ host' = [host EXCEPT !.pc = "name", !.via = Append(@, t)]

SharedWriteName ==
    /\ host.pc = "name"
    /\ \E t \in Transports, k \in 1..Len(host.restF) :
          /\ Frame(t, "WriteBinary", SubSeq(host.restF, 1, k), NoEnv)
          /\ host' = [host EXCEPT !.restF = Rest(@, k), !.via = Append(@, t)]

SharedSelectFile ==
    /\ host.pc = "name"
    /\ host.restF = <<>>
    /\ \E t \in Transports :
          /\ Frame(t, "Select", TESTER_FILE_ID, NoEnv)
          /\ host' = [host EXCEPT !.pc = "contents", !.via = Append(@, t)]

SharedWriteContents ==
    /\ host.pc = "contents"
    /\ \E t \in Transports, k \in 1..Len(host.restC) :
          /\ Frame(t, "WriteBinary", SubSeq(host.restC, 1, k), NoEnv)
          /\ host' = [host EXCEPT !.restC = Rest(@, k), !.via = Append(@, t)]

SharedWriteFile ==
    /\ host.pc = "contents"
    /\ host.restC = <<>>
    /\ \E t \in Transports, e \in StoreEnvs :
          /\ Frame(t, "WriteFile", <<>>, e)
          /\ host' = [host EXCEPT !.pc = "done", !.via = Append(@, t)]

NextShared ==
    \/ SharedSelectApp
    \/ SharedReselectApp
    \/ SharedSelectFilename
    \/ SharedWriteName
    \/ SharedSelectFile
    \/ SharedWriteContents
    \/ SharedWriteFile

SpecShared == InitShared /\ [][NextShared]_vars

\* C1: after the sequence Select(Filename tag), chunks of F, Select(File tag),
\* chunks of C, WriteFile, started on empty buffers with a non-empty F of at
\* most 128 bytes and a non-empty C of at most 8192 bytes, WriteFile was not
\* refused for an empty buffer, and when the store write succeeded the store
\* holds exactly C at path F and both buffers are empty.
C1_RoundTrip ==
    (host.pc = "done"
        /\ host.F # <<>> /\ Len(host.F) <= FilenameCapacity
        /\ host.C # <<>> /\ Len(host.C) <= FileContentsCapacity)
    => /\ response.command = "WriteFile"
       /\ response.status \in {"Ok", "NotEnoughMemory"}
       /\ response.status = "Ok" =>
            /\ Exists(store, host.F)
            /\ store[host.F] = host.C
            /\ DOMAIN store = {host.F}
            /\ buffer_filename = <<>>
            /\ buffer_file_contents = <<>>

\* a name and a content of several bytes, different from each other, written
C1_Witness ==
    /\ host.pc = "done"
    /\ response.status = "Ok"
    /\ host.F = <<97, 98, 98>>
    /\ host.C = <<98, 97>>
    /\ store[host.F] = host.C

(***************************************************************************)
(* The commands and paths of each kind of attestation key.                 *)
(***************************************************************************)
KeyKinds == {"P256", "Ed255", "X255"}

SecretPathOf(k) ==
    CASE k = "P256" -> FILENAME_P256_SECRET
      [] k = "Ed255" -> FILENAME_ED255_SECRET
      [] k = "X255" -> FILENAME_X255_SECRET

CertPathOf(k) ==
    CASE k = "P256" -> FILENAME_P256_CERT
      [] k = "Ed255" -> FILENAME_ED255_CERT
      [] k = "X255" -> FILENAME_X255_CERT

GenerateOf(k) ==
    CASE k = "P256" -> "GenerateP256Key"
      [] k = "Ed255" -> "GenerateEd255Key"
      [] k = "X255" -> "GenerateX255Key"

SaveCertificateOf(k) ==
    CASE k = "P256" -> "SaveP256AttestationCertificate"
      [] k = "Ed255" -> "SaveEd255AttestationCertificate"
      [] k = "X255" -> "SaveX255AttestationCertificate"

(***************************************************************************)
(* SpecErase: the host reformats the filesystem, generates keys, saves     *)
(* certificates and writes files, one of them at the path of the P256      *)
(* secret.  It remembers what the last successful format erased, and the   *)
(* kinds it generated a key for and the kinds whose secret path it wrote   *)
(* with WriteFile since then.                                              *)
(***************************************************************************)
EraseKinds == {"P256", "X255"}

InitErase ==
    /\ Booted
    /\ host = [pc |-> "boot", erased |-> {}, generated |-> {}, injected |-> {}]

EraseFormat ==
    \E e \in FormatEnvs :
        /\ FrameA(Apdu(Instructions("ReformatFilesystem"), 0, 0, <<>>), e)
        /\ host' = IF response'.status = "Ok"
                   THEN [pc |-> "formatted", erased |-> DOMAIN store,
                         generated |-> {}, injected |-> {}]
                   ELSE host

EraseGenerate(k) ==
    \E e \in SeedEnvs(OneSeed) :
        /\ FrameA(Apdu(Instructions(GenerateOf(k)), 0, 0, <<>>), e)
        /\ host' = IF response'.status = "Ok"
                   THEN [host EXCEPT !.generated = @ \cup {k}]
                   ELSE host

EraseSave(k) ==
    \E d \in OneCert, e \in StoreEnvs :
        /\ FrameA(Apdu(Instructions(SaveCertificateOf(k)), 0, 0, d), e)
        /\ UNCHANGED host

\* the path of the P256 secret into the path buffer, a byte into the other
EraseWriteBinary ==
    /\ SelectedContents = <<>>
    /\ FrameA(Apdu(INS_WRITE_BINARY, 0, 0,
                   IF selected_buffer = "Filename" THEN FILENAME_P256_SECRET ELSE <<97>>),
              NoEnv)
    /\ UNCHANGED host

EraseWriteFile ==
    \E e \in StoreEnvs :
        /\ FrameA(Apdu(Instructions("WriteFile"), 0, 0, <<>>), e)
        /\ host' = IF response'.status = "Ok"
                   THEN [host EXCEPT !.injected =
                            @ \cup {k \in KeyKinds : SecretPathOf(k) = buffer_filename}]
                   ELSE host

NextErase ==
    \/ ASelectApp({SOLO_PROVISIONER_AID})
    \/ EraseFormat
    \/ \E k \in EraseKinds : EraseGenerate(k)
    \/ \E k \in EraseKinds : EraseSave(k)
    \/ ASelect
    \/ EraseWriteBinary
    \/ EraseWriteFile

SpecErase == InitErase /\ [][NextErase]_vars

\* C2: a WriteFile executed while the path buffer or the content buffer is
\* empty returns IncorrectDataParameter and leaves the store as it was.
C2_WriteFilePrecondition ==
    [][(response'.command = "WriteFile"
            /\ (buffer_filename = <<>> \/ buffer_file_contents = <<>>))
        => (response'.status = "IncorrectDataParameter" /\ store' = store)]_vars

\* WriteFile refused with a name waiting and no content, a file in the store
C2_Witness ==
    /\ response.command = "WriteFile"
    /\ response.status = "IncorrectDataParameter"
    /\ buffer_filename # <<>>
    /\ buffer_file_contents = <<>>
    /\ store # EmptyStore

\* C3: after every WriteFile, whatever it returned, both buffers are empty.
C3_BuffersEmptyAfterWriteFile ==
    response.command = "WriteFile"
    => (buffer_filename = <<>> /\ buffer_file_contents = <<>>)

RecognizedTag(data) ==
    StartsWith(data, TESTER_FILENAME_ID) \/ StartsWith(data, TESTER_FILE_ID)

BufferOfTag(data) ==
    IF StartsWith(data, TESTER_FILENAME_ID) THEN "Filename" ELSE "File"

\* C4 as claimed: after the Select command with a recognized tag both buffers
\* are empty and selected_buffer is the buffer the tag names.
C4_SelectClearsBuffers ==
    (response.command = "Select" /\ RecognizedTag(frame.data))
    => /\ buffer_filename = <<>>
       /\ buffer_file_contents = <<>>
       /\ selected_buffer = BufferOfTag(frame.data)

\* C4 as amended: the Select command with a recognized tag succeeds, makes
\* selected_buffer the buffer the tag names and leaves the contents of both
\* buffers as they were.
C4_SelectKeepsBuffers ==
    [][(response'.command = "Select" /\ RecognizedTag(frame'.data))
        => /\ response'.status = "Ok"
           /\ selected_buffer' = BufferOfTag(frame'.data)
           /\ buffer_filename' = buffer_filename
           /\ buffer_file_contents' = buffer_file_contents]_vars

\* Select(File tag) executed with bytes waiting in the path buffer
C4_Witness ==
    /\ response.command = "Select"
    /\ response.status = "Ok"
    /\ StartsWith(frame.data, TESTER_FILE_ID)
    /\ selected_buffer = "File"
    /\ buffer_filename # <<>>

\* C5: for each kind, saving a certificate returns IncorrectDataParameter and
\* leaves the store as it was when the kind's secret does not exist or the
\* payload has fewer than 100 bytes; otherwise it fails only if the store
\* write fails, and on success the payload is the file at the kind's
\* certificate path and nothing else changed.
C5_CertificatePreconditions ==
    [][\A k \in KeyKinds :
        response'.command = SaveCertificateOf(k)
        => IF ~Exists(store, SecretPathOf(k)) \/ Len(frame'.data) < 100
           THEN response'.status = "IncorrectDataParameter" /\ store' = store
           ELSE /\ response'.status \in {"Ok", "NotEnoughMemory"}
                /\ response'.status = "Ok"
                    => store' = Put(store, CertPathOf(k), frame'.data)]_vars

\* an X25519 certificate of exactly 100 bytes saved
C5_Witness ==
    /\ response.command = "SaveX255AttestationCertificate"
    /\ response.status = "Ok"
    /\ Len(frame.data) = 100
    /\ Exists(store, FILENAME_X255_SECRET)
    /\ store[FILENAME_X255_CERT] = frame.data

\* C6: for each kind, a key generation that succeeds leaves at the kind's
\* secret path the record (local + sensitive, the kind, the seed s the service
\* returned), returns the public key of s for that kind and changes no other
\* path; the same command with the same seed run again in the state reached
\* returns the same public key and leaves the same store.
C6_KeyGeneration ==
    [][\A k \in KeyKinds :
        (response'.command = GenerateOf(k) /\ response'.status = "Ok")
        => \E s \in Seeds :
            /\ store' = Put(store, SecretPathOf(k),
                            serialize(Key(FLAGS_LOCAL + FLAGS_SENSITIVE, k, s)))
            /\ response'.reply = PublicKey(k, s)
            /\ LET again == handle(Self', GenerateOf(k), <<>>, Env(s, TRUE, TRUE))
               IN  /\ again.result = "Ok"
                   /\ again.reply = response'.reply
                   /\ again.p.store = store']_vars

\* an X25519 key generated from the second seed
C6_Witness ==
    /\ response.command = "GenerateX255Key"
    /\ response.status = "Ok"
    /\ response.reply = PublicKey("X255", Fill(34, 32))
    /\ store[FILENAME_X255_SECRET]
          = <<0, 3, 0, 6>> \o Fill(34, 32)

\* C7: SaveT1IntermediatePublicKey with a payload of 64 bytes fails only if
\* the store write fails, and on success /attn/pub/00 holds the record (no
\* flags, the payload as material) and nothing else changed; with any other
\* length it returns IncorrectDataParameter and leaves the store as it was.
C7_T1KeyLength ==
    [][response'.command = "SaveT1IntermediatePublicKey"
        => IF Len(frame'.data) = 64
           THEN /\ response'.status \in {"Ok", "NotEnoughMemory"}
                /\ response'.status = "Ok"
                    => store' = Put(store, FILENAME_T1_PUBLIC,
                                    serialize(Key(FLAGS_NONE, "P256", frame'.data)))
                /\ response'.status = "NotEnoughMemory" => store' = store
           ELSE response'.status = "IncorrectDataParameter" /\ store' = store]_vars

\* a key of 64 bytes saved
C7_Witness ==
    /\ response.command = "SaveT1IntermediatePublicKey"
    /\ response.status = "Ok"
    /\ Len(frame.data) = 64
    /\ store[FILENAME_T1_PUBLIC] = <<0, 0, 0, 5>> \o frame.data

\* the commands both transports offer
CommonCommands ==
    {"Select", "WriteBinary", "WriteFile", "GetUuid", "GenerateP256Key",
     "SaveP256AttestationCertificate", "SaveT1IntermediatePublicKey"}

\* payloads: a tag of each buffer, an unknown tag, a chunk, a chunk too long
\* for the path buffer, certificates around the minimum length, an
\* intermediate key of the right and of a wrong length
EquivData ==
    {TESTER_FILENAME_ID, TESTER_FILE_ID, <<225>>, <<97>>, Fill(97, FilenameCapacity + 1),
     Fill(48, CertMinLen - 1), Fill(48, CertMinLen),
     Fill(7, T1KeyLen), Fill(7, T1KeyLen + 1)}

\* C8: in every reachable state, for each command both transports offer, each
\* payload, each seed and each store behaviour, the frame given to the adapter
\* of transport A and the frame given to the adapter of transport B leave the
\* same Provisioner (scratch state and store), return the same reply, and
\* both succeed or both fail.
C8_TransportEquivalence ==
    \A c \in CommonCommands, d \in EquivData, e \in SeedEnvs(OneSeed) :
        LET a == apdu_call(Self, Apdu(InsOf(c), 0, 0, d), e)
            b == hid_call(Self, VendorOf(c), d, e)
        IN  /\ a.command = c
            /\ b.command = c
            /\ a.p = b.p
            /\ a.reply = b.reply
            /\ a.run = b.run
            /\ (a.outcome = "Ok") = (b.outcome = "Ok")

\* a state reached through transport B in which WriteFile commits a file and
\* a P256 certificate can be saved, on either transport
C8_Witness ==
    /\ frame.transport = "B"
    /\ buffer_filename # <<>>
    /\ buffer_file_contents # <<>>
    /\ Exists(store, FILENAME_P256_SECRET)
    /\ apdu_call(Self, Apdu(InsOf("WriteFile"), 0, 0, <<>>), NoEnv).outcome = "Ok"
    /\ hid_call(Self, VendorOf("SaveP256AttestationCertificate"),
                Fill(48, CertMinLen), NoEnv).outcome = "Ok"

TwoApps == {"admin", "provisioner"}

Deselects(hooks, a) ==
    Cardinality({i \in DOMAIN hooks : hooks[i] = [hook |-> "deselect", app |-> a]})

IsSelectOnA(f) == f.transport = "A" /\ IsSelectFrame(f)

\* C9: on transport A, while application a is selected every non-select frame
\* is dispatched to a and to nobody else, and a stays selected; a select frame
\* for the other application b deselects a once, then selects b, and b is
\* selected afterwards; the deselect hook of a runs in no other step than a
\* select frame for another identifier received while a is selected; frames
\* of transport B leave the selection alone.
C9_RouterSelection ==
    [][/\ \A a \in TwoApps :
            (frame'.transport = "A" /\ ~IsSelectFrame(frame') /\ current = a)
            => /\ response'.app = a
               /\ response'.hooks = <<[hook |-> "call", app |-> a]>>
               /\ current' = a
       /\ \A a \in TwoApps, b \in TwoApps :
            (a # b /\ current = a /\ IsSelectOnA(frame') /\ frame'.data = aid(b))
            => /\ response'.hooks = <<[hook |-> "deselect", app |-> a],
                                      [hook |-> "select", app |-> b]>>
               /\ response'.app = b
               /\ current' = b
       /\ \A a \in TwoApps :
            Deselects(response'.hooks, a)
                = IF current = a /\ IsSelectOnA(frame') /\ frame'.data # aid(a)
                  THEN 1 ELSE 0
       /\ frame'.transport = "B" => current' = current]_vars

\* the provisioner selected while the admin application was: one deselect
C9_Witness ==
    /\ current = "provisioner"
    /\ response.hooks = <<[hook |-> "deselect", app |-> "admin"],
                          [hook |-> "select", app |-> "provisioner"]>>

\* C10: selected_buffer is Filename before the first frame and right after
\* every selection of the provisioner on transport A.
C10_SelectedBufferReset ==
    (frame = NoFrame
        \/ (IsSelectOnA(frame) /\ response.app = "provisioner"))
    => selected_buffer = "Filename"

\* C11: a select frame of transport A that carries the provisioner's 9-byte
\* identifier succeeds, leaves both scratch buffers empty whatever they held,
\* returns the 16 bytes of the device UUID and nothing else, and leaves the
\* store as it was.
C11_AppSelection ==
    [][(IsSelectOnA(frame') /\ frame'.data = SOLO_PROVISIONER_AID)
        => /\ Len(frame'.data) = 9
           /\ response'.app = "provisioner"
           /\ response'.outcome = "Ok"
           /\ buffer_filename' = <<>>
           /\ buffer_file_contents' = <<>>
           /\ response'.reply = Uuid
           /\ Len(response'.reply) = 16
           /\ store' = store]_vars

\* the provisioner selected again after the File buffer was chosen and a file
\* was written
C11_Witness ==
    /\ IsSelectOnA(frame)
    /\ frame.data = SOLO_PROVISIONER_AID
    /\ response.reply = Uuid
    /\ selected_buffer = "File"
    /\ store # EmptyStore
    /\ buffer_filename = <<>>
    /\ buffer_file_contents = <<>>

\* C12: every command the interpreter ran, other than BootToBootrom, returned
\* success or one of the four kinds, and the firmware is still running.
C12_ClosedTaxonomy ==
    (response.command # "none" /\ response.command # "BootToBootrom")
    => /\ response.status \in Statuses \cup {"Ok"}
       /\ run = "running"

\* C13: no WriteBinary finds the buffer it appends to too full for its chunk
\* (the append fails and the firmware panics).
C13_NoOverflow ==
    ~(response.command = "WriteBinary" /\ response.status = "Panic")

\* C14: in every reachable state, a frame given to the adapter of transport A
\* with an instruction byte outside its table returns FunctionNotSupported,
\* and a frame given to the adapter of transport B with a vendor code outside
\* its table returns InvalidCommand; in both cases the interpreter is not
\* called and selected_buffer, both buffers and the store are as before.
C14_UnknownCodesRejected ==
    /\ \A ins \in (0..255) \ InstructionTable :
          LET a == apdu_call(Self, Apdu(ins, 0, 0, <<97>>), NoEnv)
          IN  /\ a.outcome = "ApduStatus::FunctionNotSupported"
              /\ a.command = "none"
              /\ a.p = Self
              /\ a.run = "running"
    /\ \A c \in (0..255) \ commands :
          LET b == hid_call(Self, c, <<97>>, NoEnv)
          IN  /\ b.outcome = "hid::Error::InvalidCommand"
              /\ b.command = "none"
              /\ b.p = Self
              /\ b.run = "running"
    /\ (frame.transport = "A" /\ frame.ins \notin InstructionTable
            /\ response.app = "provisioner")
        => /\ response.outcome = "ApduStatus::FunctionNotSupported"
           /\ response.command = "none"

\* an instruction ISO 7816 names but the table does not hold, sent to the
\* provisioner while a name waits in the path buffer and a file is stored
C14_Witness ==
    /\ frame.transport = "A"
    /\ frame.ins = INS_READ_BINARY
    /\ response.app = "provisioner"
    /\ response.outcome = "ApduStatus::FunctionNotSupported"
    /\ buffer_filename # <<>>
    /\ selected_buffer = "File"
    /\ store # EmptyStore

\* the answers of one transport's adapter, in the current state, to the
\* commands both transports offer
AdapterAnswers(t) ==
    {IF t = "A" THEN apdu_call(Self, Apdu(InsOf(c), 0, 0, d), e)
                ELSE hid_call(Self, VendorOf(c), d, e) :
        c \in CommonCommands, d \in {<<225>>, Fill(48, CertMinLen)}, e \in SeedEnvs(OneSeed)}

Failures(t) == {x \in AdapterAnswers(t) : x.status \in Statuses}

Unsupported(t) ==
    IF t = "A" THEN "ApduStatus::FunctionNotSupported" ELSE "hid::Error::InvalidCommand"

\* C15: on each transport, two frames the interpreter fails with different
\* kinds get different transport errors, and no failure of the interpreter is
\* reported as the unsupported-operation outcome.
C15_ErrorKindsDistinguishable ==
    \A t \in Transports :
        /\ \A x \in Failures(t) : x.outcome # "Ok" /\ x.outcome # Unsupported(t)
        /\ \A x \in Failures(t), y \in Failures(t) :
              x.status # y.status => x.outcome # y.outcome

FixedPaths ==
    {FILENAME_T1_PUBLIC, FILENAME_P256_SECRET, FILENAME_ED255_SECRET, FILENAME_X255_SECRET,
     FILENAME_P256_CERT, FILENAME_ED255_CERT, FILENAME_X255_CERT}

\* C16 as claimed: the store never holds a path other than the seven fixed
\* paths (it is empty at boot, so these are the paths created so far).
C16_OnlyFixedPaths ==
    DOMAIN store \subseteq FixedPaths

\* C16 as amended: a command other than WriteFile creates or overwrites only
\* paths among the seven fixed paths; WriteFile creates or overwrites only
\* the path held in the path buffer, whatever it is.
C16_PathsWritten ==
    [][LET Written == {x \in DOMAIN store' : x \notin DOMAIN store \/ store'[x] # store[x]}
       IN  IF response'.command = "WriteFile"
           THEN Written \subseteq {PathBufFrom(buffer_filename)}
           ELSE Written \subseteq FixedPaths]_vars

\* a file written at a path that is none of the seven, next to a key
C16_Witness ==
    /\ response.command = "WriteFile"
    /\ response.status = "Ok"
    /\ Exists(store, <<97, 97>>)
    /\ <<97, 97>> \notin FixedPaths
    /\ Exists(store, FILENAME_X255_SECRET)

\* C17 as claimed: a ReformatFilesystem that succeeds leaves no record at any
\* path and one that fails returns NotEnoughMemory; after a successful
\* format, saving a certificate of kind K returns IncorrectDataParameter as
\* long as no key generation of kind K has succeeded since.
C17_SaveFailsUntilGenerate ==
    [][/\ response'.command = "ReformatFilesystem"
            => /\ response'.status \in {"Ok", "NotEnoughMemory"}
               /\ response'.status = "Ok" => store' = EmptyStore
       /\ \A k \in KeyKinds :
            (response'.command = SaveCertificateOf(k)
                /\ host.pc = "formatted" /\ k \notin host.generated)
            => response'.status = "IncorrectDataParameter"]_vars

\* C17 as amended: a ReformatFilesystem that succeeds leaves no record at any
\* path and one that fails returns NotEnoughMemory and leaves the store as it
\* was; after a successful format, saving a certificate of kind K returns
\* IncorrectDataParameter as long as no record was stored at K's secret path
\* since, and such a record is stored only by a key generation of kind K
\* that succeeds or by a WriteFile to that path that succeeds.
C17_ReformatErases ==
    [][/\ response'.command = "ReformatFilesystem"
            => /\ response'.status \in {"Ok", "NotEnoughMemory"}
               /\ response'.status = "Ok" => store' = EmptyStore
               /\ response'.status = "NotEnoughMemory" => store' = store
       /\ \A k \in KeyKinds :
            /\ (response'.command = SaveCertificateOf(k)
                    /\ host.pc = "formatted"
                    /\ k \notin host.generated /\ k \notin host.injected)
                => response'.status = "IncorrectDataParameter"
            /\ (host'.pc = "formatted" /\ Exists(store', SecretPathOf(k)))
                => (k \in host'.generated \/ k \in host'.injected)]_vars

\* a key and its certificate erased by a format, and the certificate refused
\* afterwards
C17_Witness ==
    /\ host.pc = "formatted"
    /\ {FILENAME_P256_SECRET, FILENAME_P256_CERT} \subseteq host.erased
    /\ host.generated = {}
    /\ host.injected = {}
    /\ response.command = "SaveP256AttestationCertificate"
    /\ Len(frame.data) = 100
    /\ response.status = "IncorrectDataParameter"
    /\ store = EmptyStore

CertModeOf(k) ==
    CASE k = "P256" -> "P256Cert"
      [] k = "Ed255" -> "Ed255Cert"
      [] k = "X255" -> "X255Cert"

ReadModes == {"P256Cert", "Ed255Cert", "X255Cert", "T1Key"}

\* C18: right after a certificate of kind K is saved, TestAttestation in K's
\* Cert mode returns the payload saved, and right after an intermediate key
\* is saved, TestAttestation in T1Key mode returns its 64 bytes; in every
\* state, a Cert mode returns the file at the certificate path and the T1Key
\* mode the material of the record at /attn/pub/00, or NotFound when there is
\* no file at the path; these modes leave the store, both buffers and
\* selected_buffer as they were.
C18_ReadBack ==
    [][/\ \A k \in KeyKinds :
            (response'.command = SaveCertificateOf(k) /\ response'.status = "Ok")
            => \A e \in CryptoEnvs :
                LET back == handle(Self', TestAttestationCommand(CertModeOf(k)), <<>>, e)
                IN  back.result = "Ok" /\ back.reply = frame'.data
       /\ (response'.command = "SaveT1IntermediatePublicKey" /\ response'.status = "Ok")
            => \A e \in CryptoEnvs :
                LET back == handle(Self', TestAttestationCommand("T1Key"), <<>>, e)
                IN  /\ back.result = "Ok"
                    /\ back.reply = frame'.data
                    /\ Len(back.reply) = 64
       /\ \A k \in KeyKinds :
            response'.command = TestAttestationCommand(CertModeOf(k))
            => IF Exists(store, CertPathOf(k))
               THEN response'.status = "Ok" /\ response'.reply = store[CertPathOf(k)]
               ELSE response'.status = "NotFound" /\ response'.reply = <<>>
       /\ response'.command = TestAttestationCommand("T1Key")
            => IF Exists(store, FILENAME_T1_PUBLIC)
               THEN /\ response'.status = "Ok"
                    /\ store[FILENAME_T1_PUBLIC]
                          = serialize(Key(FLAGS_NONE, "P256", response'.reply))
               ELSE response'.status = "NotFound" /\ response'.reply = <<>>
       /\ response'.command \in {TestAttestationCommand(mode) : mode \in ReadModes}
            => /\ store' = store
               /\ buffer_filename' = buffer_filename
               /\ buffer_file_contents' = buffer_file_contents
               /\ selected_buffer' = selected_buffer]_vars

\* the Ed25519 certificate saved last read back while the P256 certificate
\* is another one, and an intermediate key is stored
C18_Witness ==
    /\ response.command = "TestAttestation::Ed255Cert"
    /\ response.status = "Ok"
    /\ response.reply = Fill(49, 101)
    /\ store[FILENAME_ED255_CERT] = response.reply
    /\ Exists(store, FILENAME_P256_CERT)
    /\ store[FILENAME_P256_CERT] # response.reply
    /\ Exists(store, FILENAME_T1_PUBLIC)

\* C19: in every reachable state and for each payload, GetUuid sent through
\* either adapter succeeds, returns the 16 bytes of the device UUID (the
\* bytes the selection on transport A returns) and leaves selected_buffer,
\* both buffers and the store as they were; so did every GetUuid frame that
\* was processed.
C19_GetUuid ==
    [][/\ \A d \in {<<>>, <<97>>, Fill(48, CertMinLen)} :
            LET a == apdu_call(Self, Apdu(InsOf("GetUuid"), 0, 0, d), NoEnv)
                b == hid_call(Self, VendorOf("GetUuid"), d, NoEnv)
            IN  /\ a.outcome = "Ok" /\ b.outcome = "Ok"
                /\ a.reply = Uuid /\ b.reply = Uuid
                /\ Len(a.reply) = 16
                /\ a.reply = apdu_select(Self).reply
                /\ a.p = Self /\ b.p = Self
                /\ a.run = "running" /\ b.run = "running"
       /\ response'.command = "GetUuid"
            => /\ response'.status = "Ok"
               /\ response'.outcome = "Ok"
               /\ response'.reply = Uuid
               /\ store' = store
               /\ buffer_filename' = buffer_filename
               /\ buffer_file_contents' = buffer_file_contents
               /\ selected_buffer' = selected_buffer]_vars

\* the identifier returned on transport B while a key, its certificate and
\* the intermediate key are stored and both buffers hold bytes
C19_Witness ==
    /\ response.command = "GetUuid"
    /\ frame.transport = "B"
    /\ response.reply = Uuid
    /\ Exists(store, FILENAME_P256_SECRET)
    /\ Exists(store, FILENAME_P256_CERT)
    /\ Exists(store, FILENAME_T1_PUBLIC)
    /\ buffer_filename # <<>>
    /\ buffer_file_contents # <<>>

CallOf(app) == <<[hook |-> "call", app |-> app]>>

\* C20: in every reachable state, whichever application is selected on
\* transport A, a frame of transport B that carries one of the provisioner's
\* seven vendor codes is handed to the call handler of the provisioner and to
\* no other hook, and leaves the selection of transport A as it was; so was
\* every such frame that was processed.
C20_TransportBRouting ==
    [][/\ Cardinality(commands) = 7
       /\ \A c \in commands, e \in SeedEnvs(OneSeed) :
            LET r == route_B(Self, current, c, <<97>>, e)
            IN  /\ r.app = "provisioner"
                /\ r.hooks = CallOf("provisioner")
                /\ r.command = CommandFromVendor(c).command
                /\ r.current = current
       /\ (frame'.transport = "B" /\ frame'.ins \in commands)
            => /\ response'.app = "provisioner"
               /\ response'.hooks = CallOf("provisioner")
               /\ response'.command = CommandFromVendor(frame'.ins).command
               /\ current' = current]_vars

\* a chunk written through transport B while the other application is the
\* one selected on transport A
C20_Witness ==
    /\ frame.transport = "B"
    /\ frame.ins = COMMAND_WRITE_BINARY
    /\ response.app = "provisioner"
    /\ response.status = "Ok"
    /\ current = "admin"
    /\ buffer_filename # <<>>

\* C21: a BootToBootrom that is executed does not return: it yields neither
\* success nor one of the four kinds and no response payload, it leaves the
\* scratch state and the store as they were, and the firmware is reset; once
\* the firmware is reset no frame is processed any more, so nothing changes.
C21_BootToBootromNoReturn ==
    [][/\ run = "running"
       /\ response'.command = "BootToBootrom"
            => /\ run' = "reset"
               /\ response'.status \notin Statuses \cup {"Ok"}
               /\ response'.outcome \notin {"Ok"} \cup {ApduStatusFrom(st) : st \in Statuses}
               /\ response'.reply = <<>>
               /\ store' = store
               /\ buffer_filename' = buffer_filename
               /\ buffer_file_contents' = buffer_file_contents
               /\ selected_buffer' = selected_buffer
       /\ run' = "reset" => response'.command = "BootToBootrom"]_vars

\* the device sent to the bootrom with keys and a certificate in the store
C21_Witness ==
    /\ run = "reset"
    /\ response.command = "BootToBootrom"
    /\ Exists(store, FILENAME_P256_SECRET)
    /\ Exists(store, FILENAME_X255_CERT)
    /\ ~ENABLED NextAttest

\* payloads that start with neither tag: empty, one byte, the first byte of a
\* tag with another second byte, a tag that is not at the start
UnrecognizedData == {<<>>, <<225>>, <<1>>, <<225, 3>>, <<1, 225, 1>>, <<2, 225>>}

\* C22: in every reachable state, the Select command with a payload that
\* starts with neither tag, sent through either adapter, returns NotFound and
\* leaves selected_buffer, both buffers and the store as they were; so did
\* every such frame that was processed.
C22_SelectUnrecognized ==
    [][/\ \A d \in UnrecognizedData :
            LET a == apdu_call(Self, Apdu(INS_SELECT, 0, 0, d), NoEnv)
                b == hid_call(Self, COMMAND_SELECT, d, NoEnv)
            IN  /\ ~RecognizedTag(d)
                /\ a.command = "Select" /\ b.command = "Select"
                /\ a.status = "NotFound" /\ b.status = "NotFound"
                /\ a.outcome = "ApduStatus::NotFound"
                /\ a.p = Self /\ b.p = Self
       /\ (response'.command = "Select" /\ ~RecognizedTag(frame'.data))
            => /\ response'.status = "NotFound"
               /\ selected_buffer' = selected_buffer
               /\ buffer_filename' = buffer_filename
               /\ buffer_file_contents' = buffer_file_contents
               /\ store' = store]_vars

\* a one-byte payload refused on transport B while the content buffer is the
\* one selected, both buffers hold bytes and a file is stored
C22_Witness ==
    /\ response.command = "Select"
    /\ frame.transport = "B"
    /\ frame.data = <<225>>
    /\ response.status = "NotFound"
    /\ selected_buffer = "File"
    /\ buffer_filename # <<>>
    /\ buffer_file_contents # <<>>
    /\ store # EmptyStore

\* C23: a WriteBinary within capacity succeeds and puts its chunk at the end
\* of the buffer selected_buffer names, so that the chunks of successive
\* frames are in the buffer in the order they arrived; the other buffer,
\* selected_buffer and the store stay as they were; on transport A the
\* buffers after the frame are the same for every offset in P1/P2.
C23_WriteBinaryAppends ==
    [][/\ response'.command = "WriteBinary"
            => /\ response'.status = "Ok"
               /\ IF selected_buffer = "Filename"
                  THEN /\ buffer_filename' = buffer_filename \o frame'.data
                       /\ buffer_file_contents' = buffer_file_contents
                  ELSE /\ buffer_file_contents' = buffer_file_contents \o frame'.data
                       /\ buffer_filename' = buffer_filename
               /\ selected_buffer' = selected_buffer
               /\ store' = store
       /\ host'.pc = "name" => buffer_filename' \o host'.restF = host'.F
       /\ host'.pc = "contents"
            => /\ buffer_filename' = host'.F
               /\ buffer_file_contents' \o host'.restC = host'.C
       /\ \A off \in Offsets, d \in {<<97>>, <<98, 97>>} :
            LET a == apdu_call(Self, Apdu(INS_WRITE_BINARY, off[1], off[2], d), NoEnv)
            IN  /\ a.outcome = "Ok"
                /\ a.p = handle(Self, "WriteBinary", d, NoEnv).p]_vars

\* the last byte of a content sent on transport A with a non-zero offset,
\* behind two bytes sent before
C23_Witness ==
    /\ response.command = "WriteBinary"
    /\ frame.transport = "A"
    /\ frame.p1 = 1
    /\ frame.p2 = 2
    /\ frame.data = <<98>>
    /\ host.pc = "contents"
    /\ buffer_file_contents = <<97, 97, 98>>
    /\ buffer_filename = <<98, 97>>

\* the bytes of seq that were sent, given the bytes still to send
Sent(seq, rest) == SubSeq(seq, 1, Len(seq) - Len(rest))

\* C24: whatever transport each frame of the exchange comes on, the chunks
\* sent are in the buffer the last Select named, in the order they arrived
\* (the path buffer holds the part of the name sent so far, the content
\* buffer the part of the content sent so far), a selection of the
\* application on transport A leaves both buffers empty, and a WriteFile that
\* succeeds, on either transport, stores the whole content at the whole name.
C24_SharedScratchState ==
    /\ host.pc = "filename" => (buffer_filename = <<>> /\ buffer_file_contents = <<>>)
    /\ host.pc = "name"
        => /\ selected_buffer = "Filename"
           /\ buffer_filename = Sent(host.F, host.restF)
           /\ buffer_file_contents = <<>>
    /\ host.pc = "contents"
        => /\ selected_buffer = "File"
           /\ buffer_filename = host.F
           /\ buffer_file_contents = Sent(host.C, host.restC)
    /\ host.pc = "done"
        => /\ response.command = "WriteFile"
           /\ response.status \in {"Ok", "NotEnoughMemory"}
           /\ response.status = "Ok" => store = Put(EmptyStore, host.F, host.C)

\* a file written with the frames alternating between the transports and the
\* WriteFile on transport B, after a selection of the application dropped
\* a name that came in through transport B
C24_Witness ==
    /\ host.pc = "done"
    /\ response.status = "Ok"
    /\ host.F = <<97, 98>>
    /\ host.C = <<98, 97>>
    /\ host.dropped = {"B"}
    /\ host.via = <<"B", "A", "B", "A", "B", "A", "B">>
    /\ store[host.F] = host.C

\* C25: for each kind, a key generation whose store write fails returns
\* NotEnoughMemory with an empty reply and leaves the store, the record at
\* the kind's secret path included, as it was before the command; this is so
\* for every seed the service may return, in every state.
C25_GenerateStoreFailure ==
    [][/\ \A k \in KeyKinds :
            (response'.command = GenerateOf(k) /\ response'.status # "Ok")
            => /\ response'.status = "NotEnoughMemory"
               /\ response'.reply = <<>>
               /\ Exists(store', SecretPathOf(k)) = Exists(store, SecretPathOf(k))
               /\ store' = store
       /\ \A k \in KeyKinds, s \in Seeds :
            LET r == handle(Self, GenerateOf(k), <<>>, Env(s, FALSE, TRUE))
            IN  /\ r.result = "NotEnoughMemory"
                /\ r.reply = <<>>
                /\ r.p = Self]_vars

\* an Ed25519 key generation failed on the store write, with the key of an
\* earlier generation still in place
C25_Witness ==
    /\ response.command = "GenerateEd255Key"
    /\ response.status = "NotEnoughMemory"
    /\ response.reply = <<>>
    /\ frame.transport = "A"
    /\ Exists(store, FILENAME_ED255_SECRET)
    /\ store[FILENAME_ED255_SECRET] = <<0, 3, 0, 4>> \o Fill(17, 32)

\* the paths at which two stores differ
ChangedPaths(before, after) ==
    {x \in DOMAIN before \cup DOMAIN after :
        IF x \in DOMAIN before /\ x \in DOMAIN after
        THEN before[x] # after[x]
        ELSE TRUE}

\* C26: a key generation changes no path but the kind's secret path, a
\* certificate command no path but the kind's certificate path, and
\* SaveT1IntermediatePublicKey no path but /attn/pub/00; none of them changes
\* selected_buffer or either buffer; a certificate of the kind in the store
\* before a key generation is there, the same, after it.
C26_KeyCommandsFrame ==
    [][/\ \A k \in KeyKinds :
            /\ response'.command = GenerateOf(k)
                => /\ ChangedPaths(store, store') \subseteq {SecretPathOf(k)}
                   /\ Exists(store, CertPathOf(k))
                        => /\ Exists(store', CertPathOf(k))
                           /\ store'[CertPathOf(k)] = store[CertPathOf(k)]
            /\ response'.command = SaveCertificateOf(k)
                => ChangedPaths(store, store') \subseteq {CertPathOf(k)}
       /\ response'.command = "SaveT1IntermediatePublicKey"
            => ChangedPaths(store, store') \subseteq {FILENAME_T1_PUBLIC}
       /\ response'.command \in {GenerateOf(k) : k \in KeyKinds}
                                \cup {SaveCertificateOf(k) : k \in KeyKinds}
                                \cup {"SaveT1IntermediatePublicKey"}
            => /\ selected_buffer' = selected_buffer
               /\ buffer_filename' = buffer_filename
               /\ buffer_file_contents' = buffer_file_contents]_vars

\* a second P256 key generated, from the other seed, with the certificate
\* saved for the first still in the store
C26_Witness ==
    /\ response.command = "GenerateP256Key"
    /\ response.status = "Ok"
    /\ frame.transport = "B"
    /\ Exists(store, FILENAME_P256_CERT)
    /\ store[FILENAME_P256_CERT] = Fill(48, 100)
    /\ store[FILENAME_P256_SECRET] = <<0, 3, 0, 5>> \o Fill(34, 32)
    /\ Exists(store, FILENAME_T1_PUBLIC)

\* no kind has a certificate in st without a secret in st
CertificatesHaveKeys(st) ==
    \A k \in KeyKinds : Exists(st, CertPathOf(k)) => Exists(st, SecretPathOf(k))

\* what the service and the store may answer to one more command
AnyEnvs ==
    {[seed |-> Fill(17, SeedLen), store_ok |-> s, format_ok |-> f, crypto_ok |-> TRUE] :
        s \in BOOLEAN, f \in BOOLEAN}

\* C27: in every state reached without WriteFile, a kind that has a record at
\* its certificate path has one at its secret path, and this is still so
\* after one more command other than WriteFile, whatever the command, its
\* payload and the answers of the store.
C27_CertificateImpliesKey ==
    /\ CertificatesHaveKeys(store)
    /\ \A c \in Commands \ {"WriteFile"},
          d \in {<<>>, Fill(48, CertMinLen), Fill(7, T1KeyLen)},
          e \in AnyEnvs :
            CertificatesHaveKeys(handle(Self, c, d, e).p.store)

\* a P256 certificate refused for want of a P256 key, with the X25519
\* certificate and its key in the store
C27_Witness ==
    /\ response.command = "SaveP256AttestationCertificate"
    /\ response.status = "IncorrectDataParameter"
    /\ Len(frame.data) = CertMinLen
    /\ ~Exists(store, FILENAME_P256_SECRET)
    /\ ~Exists(store, FILENAME_P256_CERT)
    /\ Exists(store, FILENAME_X255_CERT)
    /\ Exists(store, FILENAME_X255_SECRET)

====
